---------------------------- MODULE Spec2Model ----------------------------
(***************************************************************************)
(* Model of the hftshm shared headers: the metadata record and its layout  *)
(* arithmetic (layout.hpp) and the platform policy's create / open / map / *)
(* unlink / unmap / close_fd operations (platform.hpp).                    *)
(*                                                                         *)
(* Unsigned machine integers.  TLC's integers stop at 2^31 - 1, while the  *)
(* code computes with uint32_t and uint64_t values up to 2^64 - 1.  An     *)
(* unsigned integer is therefore modelled by the set of the positions of   *)
(* its 1 bits: 0 is {}, 1 is {0}, 1024 is {10}, 0xFFFFFFFF is 0..31.  The  *)
(* arithmetic below is exact modulo 2^w for the width w it is given.       *)
(***************************************************************************)
EXTENDS Integers, Sequences, FiniteSets, TLC

\* Widths of the C++ integer types the code uses.
W8  == 8
W16 == 16
W32 == 32
W64 == 64

RECURSIVE Pow2(_)
Pow2(k) == IF k = 0 THEN 1 ELSE 2 * Pow2(k - 1)

Pow2Table == [k \in 0..30 |-> Pow2(k)]

\* The bit set of a natural number n < 2^31.
Bits(n) == {i \in 0..30 : (n \div Pow2Table[i]) % 2 = 1}

RECURSIVE ValFrom(_, _)
ValFrom(b, i) ==
    IF i > 30 THEN 0 ELSE (IF i \in b THEN 1 ELSE 0) + 2 * ValFrom(b, i + 1)

\* The natural number of a bit set whose bits are all below 31.
Val(b) == ValFrom(b, 0)

MaxBit(b) == CHOOSE i \in b : \A j \in b : j <= i
MinBit(b) == CHOOSE i \in b : \A j \in b : i <= j

\* Conversion to a narrower (or equal) unsigned type: value modulo 2^w.
Trunc(b, w) == b \cap (0..(w - 1))

BitAnd(a, b) == a \cap b
BitOr(a, b)  == a \cup b
BitXor(a, b) == (a \ b) \cup (b \ a)

\* a << s in a w-bit unsigned type (s < w).
ShiftLeft(a, s, w) == Trunc({i + s : i \in a}, w)

\* The carry into bit i of a + b: some lower bit j generates a carry (both
\* bits set) and every bit between j and i propagates it (either bit set).
Carry(a, b, i) ==
    \E j \in BitAnd(a, b) :
        j < i /\ \A k \in (j + 1)..(i - 1) : k \in a \/ k \in b

\* a + b modulo 2^w.
Plus(a, b, w) ==
    {i \in 0..(w - 1) : ((i \in a) # (i \in b)) # Carry(a, b, i)}

\* The borrow out of the bits below i in a - b.
Borrow(a, b, i) ==
    \E j \in b \ a :
        j < i /\ \A k \in (j + 1)..(i - 1) : ~(k \in a /\ k \notin b)

\* a - b modulo 2^w.
Minus(a, b, w) ==
    {i \in 0..(w - 1) : ((i \in a) # (i \in b)) # Borrow(a, b, i)}

\* a < b, a <= b as unsigned numbers.
Less(a, b) == a # b /\ MaxBit(BitXor(a, b)) \in b
LessEq(a, b) == a = b \/ Less(a, b)

RECURSIVE Times(_, _, _)
\* a * b modulo 2^w (shift and add).
Times(a, b, w) ==
    IF b = {} THEN {}
    ELSE LET i == MinBit(b) IN Plus(ShiftLeft(a, i, w), Times(a, b \ {i}, w), w)

TopBit(a) == IF a = {} THEN -1 ELSE MaxBit(a)

RECURSIVE DivStep(_, _, _, _, _)
\* Long division of a by d # 0: bit i of a is brought down into the
\* remainder r, and q collects the quotient.  Yields <<quotient, remainder>>.
DivStep(a, d, i, q, r) ==
    IF i < 0 THEN <<q, r>>
    ELSE LET r1 == BitOr({j + 1 : j \in r}, IF i \in a THEN {0} ELSE {})
         IN IF LessEq(d, r1)
            THEN DivStep(a, d, i - 1, q \cup {i}, Minus(r1, d, TopBit(r1) + 1))
            ELSE DivStep(a, d, i - 1, q, r1)

\* a / b and a % b for unsigned 32-bit a, b with b # 0.
Quot(a, b) == DivStep(a, b, TopBit(a), {}, {})[1]
Rem(a, b)  == DivStep(a, b, TopBit(a), {}, {})[2]

-----------------------------------------------------------------------------
(* layout.hpp: constants *)

CACHE_LINE == 64
PAGE_SIZE == 4096
METADATA_VERSION == 2
METADATA_FIXED_SIZE == 39

\* "HFTSHM\x02\x00" read as a little-endian 64-bit number: 0x00024D4853544648.
MagicBytes == <<72, 70, 84, 83, 72, 77, 2, 0>>
METADATA_MAGIC ==
    UNION {ShiftLeft(Bits(MagicBytes[i]), 8 * (i - 1), W64) : i \in 1..8}

HUGEPAGE_2MB == {21}
HUGEPAGE_1GB == {30}

\* The outcome of an operation whose behaviour the language leaves undefined.
\* size_to_log2 yields a number below 32; UB is no such number.
UB == Pow2(W8)
\* No bit has this position.
NoSuchBit == 0 - 1

(* layout.hpp: power-of-2 helpers *)

RECURSIVE Log2Loop(_, _)
\* while ((1u << log2) < size) ++log2;  a shift by 32 or more is undefined.
Log2Loop(size, log2) ==
    IF log2 >= W32 THEN UB
    ELSE IF Less(ShiftLeft({0}, log2, W32), size) THEN Log2Loop(size, log2 + 1)
    ELSE log2

\* A faulty variant of size_to_log2 whose loop tests <= instead of <.
RECURSIVE Log2LoopLe(_, _)
Log2LoopLe(size, log2) ==
    IF log2 >= W32 THEN UB
    ELSE IF LessEq(ShiftLeft({0}, log2, W32), size) THEN Log2LoopLe(size, log2 + 1)
    ELSE log2

size_to_log2_le(size) == Log2LoopLe(size, 0)

\* size_to_log2: a number in 0..31, or UB when the loop reaches 1u << 32.
size_to_log2(size) == Log2Loop(size, 0)

log2_to_size(log2) == ShiftLeft({0}, log2, W32)

\* x && !(x & (x - 1))
is_power_of_2(x) == x # {} /\ BitAnd(x, Minus(x, {0}, W32)) = {}

(* layout.hpp: section layout *)

DEFAULT_PRODUCER_SECTION_SIZE == Bits(2 * CACHE_LINE)
DEFAULT_CONSUMER_SECTION_SIZE == Bits(2 * CACHE_LINE)

default_producer_offset == Trunc(Bits(CACHE_LINE), W32)

\* CACHE_LINE is a size_t: the sum is taken in 64 bits and returned as uint32_t.
default_consumer_0_offset(producer_section_size) ==
    Trunc(Plus(Bits(CACHE_LINE), producer_section_size, W64), W32)

\* max_consumers * consumer_section_size is a uint32_t product; the sums are
\* taken in size_t and the result is returned as uint32_t.
raw_header_size(max_consumers, producer_section_size, consumer_section_size) ==
    Trunc(Plus(Plus(Bits(CACHE_LINE), producer_section_size, W64),
               Times(max_consumers, consumer_section_size, W32), W64), W32)

\* ((raw + PAGE_SIZE - 1) / PAGE_SIZE) * PAGE_SIZE in uint32_t.
header_segment_size(max_consumers, producer_section_size, consumer_section_size) ==
    LET raw == raw_header_size(max_consumers, producer_section_size,
                               consumer_section_size)
    IN Times(Quot(Minus(Plus(raw, Bits(PAGE_SIZE), W32), {0}, W32),
                  Bits(PAGE_SIZE)), Bits(PAGE_SIZE), W32)

(* layout.hpp: data segment size *)
data_segment_size(buffer_size, hugepage_size) ==
    IF hugepage_size = {} THEN buffer_size
    ELSE Times(Quot(Minus(Plus(buffer_size, hugepage_size, W32), {0}, W32),
                    hugepage_size), hugepage_size, W32)

-----------------------------------------------------------------------------
(* layout.hpp: the metadata record.  A record is modelled field by field,   *)
(* each field holding an unsigned number of the field's width, and the      *)
(* padding byte by byte.                                                     *)

PaddingLen == CACHE_LINE - METADATA_FIXED_SIZE

\* The fields in declaration order, with their widths.
FieldWidth ==
    [magic |-> W64, version |-> W8, max_consumers |-> W8, event_size |-> W16,
     producer_pid |-> W32, buffer_size |-> W32, producer_offset |-> W32,
     consumer_0_offset |-> W32, header_size |-> W32, index_mask |-> W32,
     event_size_log2 |-> W8, buffer_size_log2 |-> W8, header_size_log2 |-> W8]

Fields == DOMAIN FieldWidth

\* The fields that describe the geometry (all but magic, version and pid).
GeometryFields == Fields \ {"magic", "version", "producer_pid"}

\* A record with every byte equal to the byte b.
FilledRecord(b) ==
    [f \in Fields |->
        UNION {ShiftLeft(b, 8 * k, W64) : k \in 0..((FieldWidth[f] \div 8) - 1)}]
    @@ [padding |-> [i \in 1..PaddingLen |-> b]]

ZeroRecord == FilledRecord({})

\* What size_to_log2's result becomes once stored in a uint8_t field: the
\* number itself, or any byte when the computation was undefined.
Log2Outcomes(r) == IF r = UB THEN 0..(Pow2(W8) - 1) ELSE {r}

\* The stores of metadata_init, in program order: <<field, padding index, value>>.
InitStores(max_consumers, event_size, buffer_size, producer_offset, consumer_0_offset, header_size, bufLog2, hdrLog2) ==
    << <<"magic", 0, METADATA_MAGIC>>,
       <<"version", 0, Bits(METADATA_VERSION)>>,
       <<"max_consumers", 0, max_consumers>>,
       <<"event_size", 0, event_size>>,
       <<"producer_pid", 0, {}>>,
       <<"buffer_size", 0, buffer_size>>,
       <<"producer_offset", 0, producer_offset>>,
       <<"consumer_0_offset", 0, consumer_0_offset>>,
       <<"header_size", 0, header_size>>,
       <<"index_mask", 0, Minus(buffer_size, {0}, W32)>>,
       <<"event_size_log2", 0,
         IF event_size # {} THEN Bits(size_to_log2(event_size)) ELSE {}>>,
       <<"buffer_size_log2", 0, Bits(bufLog2)>>,
       <<"header_size_log2", 0, Bits(hdrLog2)>> >>
    \o [i \in 1..PaddingLen |-> <<"padding", i, {}>>]

ApplyStore(m, st) ==
    IF st[1] = "padding" THEN [m EXCEPT !.padding[st[2]] = st[3]]
    ELSE [m EXCEPT ![st[1]] = st[3]]

RECURSIVE ApplyStores(_, _, _)
\* m after the first k stores of sts.
ApplyStores(m, sts, k) ==
    IF k = 0 THEN m ELSE ApplyStore(ApplyStores(m, sts, k - 1), sts[k])

\* metadata_init: the record after all its stores.
metadata_init(m, max_consumers, event_size, buffer_size, producer_offset, consumer_0_offset, header_size, bufLog2, hdrLog2) ==
    LET sts == InitStores(max_consumers, event_size, buffer_size,
                          producer_offset, consumer_0_offset, header_size,
                          bufLog2, hdrLog2)
    IN ApplyStores(m, sts, Len(sts))

metadata_validate(m) ==
    m.magic = METADATA_MAGIC /\ m.version = Bits(METADATA_VERSION)

validate_sizes(m) ==
    is_power_of_2(m.buffer_size)
    /\ m.index_mask = Minus(m.buffer_size, {0}, W32)

\* The result of an accessor whose computation is undefined (a division by
\* zero): the call may trap or yield any value.
Undef == {NoSuchBit}

\* index << meta->event_size_log2 (metadata_init stores a shift below 16).
event_offset(m, index) == ShiftLeft(index, Val(m.event_size_log2), W32)

\* A faulty variant of buffer_index that masks with the buffer size.
buffer_index_size(m, sequence) == BitAnd(Trunc(sequence, W32), m.buffer_size)

\* static_cast<uint32_t>(sequence) & meta->index_mask
buffer_index(m, sequence) == BitAnd(Trunc(sequence, W32), m.index_mask)

producer_section_size(m) == Minus(m.consumer_0_offset, m.producer_offset, W32)

\* (raw_header_size(max_consumers) - consumer_0_offset) / max_consumers,
\* raw_header_size taking its default section sizes.
consumer_section_size(m) ==
    LET raw_end == raw_header_size(m.max_consumers,
                                   DEFAULT_PRODUCER_SECTION_SIZE,
                                   DEFAULT_CONSUMER_SECTION_SIZE)
    IN IF m.max_consumers = {} THEN Undef
       ELSE Quot(Minus(raw_end, m.consumer_0_offset, W32), m.max_consumers)

\* consumer_0_offset + n * consumer_section_size(meta)
consumer_offset(m, n) ==
    LET sz == consumer_section_size(m)
    IN IF sz = Undef THEN Undef
       ELSE Plus(m.consumer_0_offset, Times(n, sz, W32), W32)

-----------------------------------------------------------------------------
(* The metadata codec at work: a record in memory, initialised once by the  *)
(* provisioning protocol and then read through the accessors.               *)

VARIABLES
    mem,        \* the header record at offset 0 of the header segment
    phase,      \* "fresh" before metadata_init, "inited" after it
    args,       \* the arguments the record was initialised from
    call        \* the last codec call: [op, in, out, before]

codecVars == <<mem, phase, args, call>>

Args(c, e, b, p, s) ==
    [max_consumers |-> c, event_size |-> e, buffer_size |-> b,
     producer_section |-> p, consumer_section |-> s]

NoArgs == Args({}, {}, {}, {}, {})

Called(o, i, r, m) == [op |-> o, in |-> i, out |-> r, before |-> m]

\* Every power of two a uint32_t holds, and every valid event size.
AllPow2 == {{k} : k \in 0..(W32 - 1)}
EventSizes == {{}} \cup {{k} : k \in 0..(W16 - 1)}

\* Sizes that are not powers of two.
BadBufferSizes == {{}, Bits(3), Bits(1000), {10, 0}}
BadEventSizes == {Bits(3), Bits(48), Bits(1000)}
\* A size above 2^31, for which size_to_log2 shifts by 32.
HugeBufferSizes == {{31, 30}}

ConsumerCounts == {Bits(n) : n \in {0, 1, 4, 62, 63, 255}}
SectionSizes ==
    {<<DEFAULT_PRODUCER_SECTION_SIZE, DEFAULT_CONSUMER_SECTION_SIZE>>,
     <<DEFAULT_PRODUCER_SECTION_SIZE, Bits(4 * CACHE_LINE)>>,
     <<Bits(CACHE_LINE), DEFAULT_CONSUMER_SECTION_SIZE>>,
     <<Bits(4 * CACHE_LINE), Bits(CACHE_LINE)>>}

\* The arguments metadata_init is tried on, for four consumers and the
\* default sections: every buffer size with the smallest, a middle and the
\* largest event size, and every event size with a middle and the largest
\* buffer size; then every consumer count with every pair of section sizes.
InitArgs ==
    {Args(Bits(4), e, b, DEFAULT_PRODUCER_SECTION_SIZE,
          DEFAULT_CONSUMER_SECTION_SIZE) :
        e \in {{}, {0}, {6}, {W16 - 1}} \cup BadEventSizes,
        b \in AllPow2 \cup BadBufferSizes}
    \cup {Args(Bits(4), e, b, DEFAULT_PRODUCER_SECTION_SIZE,
               DEFAULT_CONSUMER_SECTION_SIZE) :
            e \in EventSizes, b \in {{10}, {W32 - 1}}}
    \cup {Args(c, e, {10}, ps[1], ps[2]) :
            c \in ConsumerCounts, e \in {{}, {6}}, ps \in SectionSizes}
    \cup {Args(Bits(4), {6}, b, DEFAULT_PRODUCER_SECTION_SIZE,
               DEFAULT_CONSUMER_SECTION_SIZE) : b \in HugeBufferSizes}

\* A record left by an earlier run, with a producer attached.
AttachedRecord ==
    [metadata_init(ZeroRecord, Bits(2), {5}, {8}, default_producer_offset,
                   default_consumer_0_offset(DEFAULT_PRODUCER_SECTION_SIZE),
                   Bits(PAGE_SIZE), 8, 12)
        EXCEPT !.producer_pid = Bits(4242)]

GarbageRecord == FilledRecord(Bits(165))

PriorContents == {ZeroRecord, GarbageRecord, AttachedRecord}

CodecInit ==
    /\ mem \in PriorContents
    /\ phase = "fresh"
    /\ args = NoArgs
    /\ call = Called("none", {}, {}, ZeroRecord)

\* Provisioning, step 3: metadata_init(ptr, C, E, B, default_producer_offset(),
\* default_consumer_0_offset(P), header_segment_size(C, P, S)).
MetadataInit ==
    /\ phase = "fresh"
    /\ \E a \in InitArgs :
        LET hs == header_segment_size(a.max_consumers, a.producer_section,
                                      a.consumer_section)
        IN \E bl \in Log2Outcomes(size_to_log2(a.buffer_size)),
              hl \in Log2Outcomes(size_to_log2(hs)) :
            /\ mem' = metadata_init(mem, a.max_consumers, a.event_size,
                         a.buffer_size, default_producer_offset,
                         default_consumer_0_offset(a.producer_section),
                         hs, bl, hl)
            /\ args' = a
    /\ phase' = "inited"
    /\ call' = Called("metadata_init", {}, {}, mem)

Reads(o, i, r) ==
    /\ call' = Called(o, i, r, ZeroRecord)
    /\ UNCHANGED <<mem, phase, args>>

MetadataValidate == Reads("metadata_validate", {}, metadata_validate(mem))

ValidateSizes ==
    /\ phase = "inited"
    /\ Reads("validate_sizes", {}, validate_sizes(mem))

\* The indexes event_offset is tried on: below buffer_size.
IndexCases(b) ==
    {i \in {{}, {0}, Bits(5), {W16}, {W32 - 2, 0}, Minus(b, {0}, W32)} :
        Less(i, b)}

EventOffset ==
    /\ phase = "inited"
    /\ \E i \in IndexCases(mem.buffer_size) :
        Reads("event_offset", i, event_offset(mem, i))

\* The 64-bit sequence numbers buffer_index is tried on.
SequenceCases(b) ==
    {{}, {0}, Minus(b, {0}, W64), b, Plus(b, Bits(5), W64), 0..(W32 - 1),
     {W32}, {W32 + 8, W32, 3, 0}, {W64 - 1}, Minus({}, b, W64),
     0..(W64 - 1)}

BufferIndex ==
    /\ phase = "inited"
    /\ \E q \in SequenceCases(mem.buffer_size) :
        Reads("buffer_index", q, buffer_index(mem, q))

ProducerSectionSize ==
    /\ phase = "inited"
    /\ Reads("producer_section_size", {}, producer_section_size(mem))

ConsumerSectionSize ==
    /\ phase = "inited"
    /\ Reads("consumer_section_size", {}, consumer_section_size(mem))

\* The consumers consumer_offset is tried on: below max_consumers.
ConsumerCases(c) ==
    {n \in {{}, {0}, Bits(3), Minus(c, {0}, W8)} : Less(n, c)}

ConsumerOffset ==
    /\ phase = "inited"
    /\ \E n \in ConsumerCases(mem.max_consumers) :
        Reads("consumer_offset", n, consumer_offset(mem, n))

-----------------------------------------------------------------------------
(* platform.hpp: LinuxShmPolicy / MacOSShmPolicy on one name.               *)
(* The two policies differ only in BASE_PATH and in the mmap flags; the     *)
(* system calls behave as POSIX specifies: a name is bound to at most one   *)
(* object, a descriptor or a mapping refers to the object it was made from, *)
(* and an object keeps its size and contents while anything refers to it.   *)

MaxProcs == 2
MaxCalls == 1

Procs == 1..MaxProcs
\* Every exclusive create makes a new object; one more may exist beforehand.
Objs == 0..(MaxProcs * MaxCalls)

NoFd == -1
NoObj == NoFd
NoPtr == NoFd
NoProc == NoFd

\* The sizes the callers ask for, and the size of an object left by an
\* earlier run.
RequestSizes == {PAGE_SIZE, 2 * PAGE_SIZE}
OldSize == 3 * PAGE_SIZE

VARIABLES
    nameObj,    \* the object the name is bound to, or NoObj
    nextObj,    \* the next unused object identity
    objSize,    \* object -> its size in bytes (st_size)
    objData,    \* object -> its contents (what was stored through a mapping)
    pc,         \* process -> where it is inside create, or "idle"
    req,        \* process -> the size argument of its create call
    calls,      \* process -> how many create calls it has made
    fd,         \* process -> the object its descriptor refers to, or NoFd
    ptr,        \* process -> the object its mapping maps, or NoPtr
    last,       \* the call that returned last: [op, proc, ret]
    lastDone,   \* the process whose create call returned last, or NoProc
    failed      \* the processes one of whose create calls returned -1

shmVars == <<nameObj, nextObj, objSize, objData, pc, req, calls, fd, ptr,
             last, lastDone, failed>>

Returned(o, p, r) == [op |-> o, proc |-> p, ret |-> r]

ShmInit ==
    /\ nameObj \in {NoObj, 0}
    /\ nextObj = IF nameObj = NoObj THEN 0 ELSE 1
    /\ objSize = [o \in Objs |-> IF o = nameObj THEN OldSize ELSE 0]
    /\ objData = [o \in Objs |-> 0]
    /\ pc = [p \in Procs |-> "idle"]
    /\ req = [p \in Procs |-> 0]
    /\ calls = [p \in Procs |-> 0]
    /\ fd = [p \in Procs |-> NoFd]
    /\ ptr = [p \in Procs |-> NoPtr]
    /\ last = Returned("none", NoProc, 0)
    /\ lastDone = NoProc
    /\ failed = {}

\* create returns r to p.
CreateReturns(p, r) ==
    /\ pc' = [pc EXCEPT ![p] = "idle"]
    /\ last' = Returned("create", p, r)
    /\ lastDone' = p
    /\ failed' = IF r = NoFd THEN failed \cup {p} ELSE failed

\* create(name, size, hugepage_size): entry, ensure_base_dir, get_path.
CreateBegin(p) ==
    /\ pc[p] = "idle" /\ fd[p] = NoFd /\ calls[p] < MaxCalls
    /\ \E size \in RequestSizes : req' = [req EXCEPT ![p] = size]
    /\ pc' = [pc EXCEPT ![p] = "excl"]
    /\ calls' = [calls EXCEPT ![p] = @ + 1]
    /\ UNCHANGED <<nameObj, nextObj, objSize, objData, fd, ptr, last,
                   lastDone, failed>>

\* fd = ::open(path, O_RDWR | O_CREAT | O_EXCL, 0666)
OpenExcl(p) ==
    /\ pc[p] = "excl"
    /\ \/ /\ nameObj = NoObj          \* created: a new, empty object
          /\ nameObj' = nextObj
          /\ nextObj' = nextObj + 1
          /\ objSize' = [objSize EXCEPT ![nextObj] = 0]
          /\ objData' = [objData EXCEPT ![nextObj] = 0]
          /\ fd' = [fd EXCEPT ![p] = nextObj]
          /\ pc' = [pc EXCEPT ![p] = "trunc_new"]
          /\ UNCHANGED <<last, lastDone, failed>>
       \/ /\ nameObj # NoObj          \* errno == EEXIST
          /\ pc' = [pc EXCEPT ![p] = "reopen"]
          /\ UNCHANGED <<nameObj, nextObj, objSize, objData, fd, last,
                         lastDone, failed>>
       \/ /\ CreateReturns(p, NoFd)   \* any other errno: return -1
          /\ UNCHANGED <<nameObj, nextObj, objSize, objData, fd>>
    /\ UNCHANGED <<req, calls, ptr>>

\* fd = ::open(path, O_RDWR); if (fd < 0) return -1;
OpenExisting(p) ==
    /\ pc[p] = "reopen"
    /\ \/ /\ nameObj # NoObj
          /\ fd' = [fd EXCEPT ![p] = nameObj]
          /\ pc' = [pc EXCEPT ![p] = "trunc_old"]
          /\ UNCHANGED <<last, lastDone, failed>>
       \/ /\ CreateReturns(p, NoFd)   \* ENOENT (the name is gone) or another error
          /\ UNCHANGED fd
    /\ UNCHANGED <<nameObj, nextObj, objSize, objData, req, calls, ptr>>

\* A faulty variant of TruncExisting that returns the existing object unresized.
TruncExistingNoResize(p) ==
    /\ pc[p] = "trunc_old"
    /\ \/ /\ CreateReturns(p, fd[p])
          /\ UNCHANGED objSize
       \/ /\ pc' = [pc EXCEPT ![p] = "close_old"]
          /\ UNCHANGED <<objSize, last, lastDone, failed>>
    /\ UNCHANGED <<nameObj, nextObj, objData, req, calls, fd, ptr>>

\* ::ftruncate(fd, size) on the existing object; on success return fd.
TruncExisting(p) ==
    /\ pc[p] = "trunc_old"
    /\ \/ /\ objSize' = [objSize EXCEPT ![fd[p]] = req[p]]
          /\ CreateReturns(p, fd[p])
       \/ /\ pc' = [pc EXCEPT ![p] = "close_old"]      \* ftruncate failed
          /\ UNCHANGED <<objSize, last, lastDone, failed>>
    /\ UNCHANGED <<nameObj, nextObj, objData, req, calls, fd, ptr>>

\* ::close(fd); return -1;
CloseExisting(p) ==
    /\ pc[p] = "close_old"
    /\ fd' = [fd EXCEPT ![p] = NoFd]
    /\ CreateReturns(p, NoFd)
    /\ UNCHANGED <<nameObj, nextObj, objSize, objData, req, calls, ptr>>

\* ::ftruncate(fd, size) on the object this call created; on success return fd.
TruncNew(p) ==
    /\ pc[p] = "trunc_new"
    /\ \/ /\ objSize' = [objSize EXCEPT ![fd[p]] = req[p]]
          /\ CreateReturns(p, fd[p])
       \/ /\ pc' = [pc EXCEPT ![p] = "close_new"]      \* ftruncate failed
          /\ UNCHANGED <<objSize, last, lastDone, failed>>
    /\ UNCHANGED <<nameObj, nextObj, objData, req, calls, fd, ptr>>

\* ::close(fd);
CloseNew(p) ==
    /\ pc[p] = "close_new"
    /\ fd' = [fd EXCEPT ![p] = NoFd]
    /\ pc' = [pc EXCEPT ![p] = "unlink_new"]
    /\ UNCHANGED <<nameObj, nextObj, objSize, objData, req, calls, ptr,
                   last, lastDone, failed>>

\* ::unlink(path); return -1;  The path is unlinked whatever it names by now.
UnlinkNew(p) ==
    /\ pc[p] = "unlink_new"
    /\ nameObj' = NoObj
    /\ CreateReturns(p, NoFd)
    /\ UNCHANGED <<nextObj, objSize, objData, req, calls, fd, ptr>>

\* A public call (not create) returns r to p.
CallReturns(o, p, r) ==
    /\ last' = Returned(o, p, r)
    /\ UNCHANGED <<pc, req, calls, lastDone, failed, nextObj>>

\* open(name): ::open(path, O_RDWR); -1 when the name is absent (or on
\* another error).  The caller keeps one handle at a time.
Open(p) ==
    /\ pc[p] = "idle" /\ fd[p] = NoFd
    /\ \/ /\ nameObj # NoObj
          /\ fd' = [fd EXCEPT ![p] = nameObj]
          /\ CallReturns("open", p, nameObj)
       \/ /\ UNCHANGED fd
          /\ CallReturns("open", p, NoFd)
    /\ UNCHANGED <<nameObj, objSize, objData, ptr>>

\* map(fd, size, hugepage_size): mmap MAP_SHARED, with MAP_HUGETLB when
\* hugepage_size > 0; if that mmap fails, one more mmap without it; nullptr
\* when the (last) mmap fails.
Map(p) ==
    /\ pc[p] = "idle" /\ ptr[p] = NoPtr
    /\ \E hugepages, firstOk, fallbackOk \in BOOLEAN :
          LET ok == fd[p] # NoFd /\ (firstOk \/ (hugepages /\ fallbackOk))
              r  == IF ok THEN fd[p] ELSE NoPtr
          IN /\ ptr' = [ptr EXCEPT ![p] = r]
             /\ CallReturns("map", p, r)
    /\ UNCHANGED <<nameObj, objSize, objData, fd>>

\* A store through a shared read-write mapping changes the object's contents.
Store(p) ==
    /\ pc[p] = "idle" /\ ptr[p] # NoPtr
    /\ objData[ptr[p]] = 0
    /\ objData' = [objData EXCEPT ![ptr[p]] = 1]
    /\ CallReturns("store", p, 1)
    /\ UNCHANGED <<nameObj, objSize, fd, ptr>>

\* get_size(fd): st_size, or 0 when fstat fails.
GetSize(p) ==
    /\ pc[p] = "idle"
    /\ CallReturns("get_size", p, IF fd[p] # NoFd THEN objSize[fd[p]] ELSE 0)
    /\ UNCHANGED <<nameObj, objSize, objData, fd, ptr>>

\* A faulty variant of Unlink that destroys the object with its name: the object
\* is emptied and the handles on it are lost.
UnlinkDestroys(p) ==
    /\ pc[p] = "idle"
    /\ nameObj' = NoObj
    /\ objSize' = [o \in Objs |-> IF o = nameObj THEN 0 ELSE objSize[o]]
    /\ objData' = [o \in Objs |-> IF o = nameObj THEN 0 ELSE objData[o]]
    /\ fd' = [q \in Procs |-> IF fd[q] = nameObj THEN NoFd ELSE fd[q]]
    /\ ptr' = [q \in Procs |-> IF ptr[q] = nameObj THEN NoPtr ELSE ptr[q]]
    /\ CallReturns("unlink", p, nameObj # NoObj)

\* unlink(name): ::unlink(path) == 0.  Only the name goes.
Unlink(p) ==
    /\ pc[p] = "idle"
    /\ nameObj' = NoObj
    /\ CallReturns("unlink", p, nameObj # NoObj)
    /\ UNCHANGED <<objSize, objData, fd, ptr>>

\* unmap(ptr, size): munmap unless ptr is null.
Unmap(p) ==
    /\ pc[p] = "idle"
    /\ ptr' = [ptr EXCEPT ![p] = NoPtr]
    /\ CallReturns("unmap", p, 0)
    /\ UNCHANGED <<nameObj, objSize, objData, fd>>

\* close_fd(fd): close unless fd < 0.
CloseFd(p) ==
    /\ pc[p] = "idle"
    /\ fd' = [fd EXCEPT ![p] = NoFd]
    /\ CallReturns("close_fd", p, 0)
    /\ UNCHANGED <<nameObj, objSize, objData, ptr>>

-----------------------------------------------------------------------------
(* metadata_init racing with an attaching consumer: the producer's stores   *)
(* take effect one at a time in program order, and the consumer reads the   *)
(* same record with metadata_validate and then a geometry field.            *)

VARIABLES
    stores,     \* the stores of the running metadata_init, in program order
    ppc,        \* how many of them the producer has done
    cpc,        \* the consumer: "idle", "magic_ok", "valid" or "read"
    cseen       \* the geometry field the consumer read: [field, value]

raceVars == <<stores, ppc, cpc, cseen>>

RaceArgs ==
    {Args(c, e, {10}, DEFAULT_PRODUCER_SECTION_SIZE,
          DEFAULT_CONSUMER_SECTION_SIZE) : c \in {Bits(1), Bits(4)},
                                           e \in {{}, {6}}}

StoresFor(a) ==
    LET hs == header_segment_size(a.max_consumers, a.producer_section,
                                  a.consumer_section)
    IN InitStores(a.max_consumers, a.event_size, a.buffer_size,
                  default_producer_offset,
                  default_consumer_0_offset(a.producer_section), hs,
                  size_to_log2(a.buffer_size), size_to_log2(hs))

NoneSeen == [field |-> "none", value |-> {}]

RaceInit ==
    /\ mem = ZeroRecord
    /\ phase = "fresh"
    /\ args \in RaceArgs
    /\ call = Called("none", {}, {}, ZeroRecord)
    /\ stores = StoresFor(args)
    /\ ppc = 0
    /\ cpc = "idle"
    /\ cseen = NoneSeen

\* The producer's next store.
ProducerStore ==
    /\ ppc < Len(stores)
    /\ mem' = ApplyStore(mem, stores[ppc + 1])
    /\ ppc' = ppc + 1
    /\ phase' = IF ppc' = Len(stores) THEN "inited" ELSE phase
    /\ UNCHANGED <<args, call, stores, cpc, cseen>>

\* metadata_validate, left operand: meta->magic == METADATA_MAGIC
ConsumerReadMagic ==
    /\ cpc = "idle"
    /\ cpc' = IF mem.magic = METADATA_MAGIC THEN "magic_ok" ELSE "idle"
    /\ cseen' = NoneSeen
    /\ UNCHANGED <<mem, phase, args, call, stores, ppc>>

\* metadata_validate, right operand: meta->version == METADATA_VERSION
ConsumerReadVersion ==
    /\ cpc = "magic_ok"
    /\ cpc' = IF mem.version = Bits(METADATA_VERSION) THEN "valid" ELSE "idle"
    /\ UNCHANGED <<mem, phase, args, call, stores, ppc, cseen>>

\* After metadata_validate returned true: the consumer reads a geometry field.
ConsumerReadField ==
    /\ cpc = "valid"
    /\ \E f \in GeometryFields : cseen' = [field |-> f, value |-> mem[f]]
    /\ cpc' = "read"
    /\ UNCHANGED <<mem, phase, args, call, stores, ppc>>

\* The consumer goes on to its next read of the record.
ConsumerAgain ==
    /\ cpc = "read"
    /\ cpc' = "valid"
    /\ cseen' = NoneSeen
    /\ UNCHANGED <<mem, phase, args, call, stores, ppc>>

\* The value metadata_init leaves in field f.
FinalValue(f) == ApplyStores(ZeroRecord, stores, Len(stores))[f]

-----------------------------------------------------------------------------
(* The geometry library called on its own: data_segment_size.               *)

VARIABLES
    geo         \* the last call: [called, buffer_size, hugepage_size, out]

geoVars == <<geo>>

Geo(c, b, h, r) ==
    [called |-> c, buffer_size |-> b, hugepage_size |-> h, out |-> r]

\* Buffer sizes and hugepage sizes across the uint32_t range.
SizeCases ==
    {{}, {0}, Bits(1000), Bits(PAGE_SIZE), HUGEPAGE_2MB, {21, 0},
     HUGEPAGE_1GB, {30, 0}, {31}, {31, 0}, {31, 30}, (21..31), 0..31}
PageCases ==
    {{}, {0}, Bits(3), Bits(PAGE_SIZE), HUGEPAGE_2MB, HUGEPAGE_1GB, {31},
     {31, 30}, 0..31}

GeoInit == geo = Geo(FALSE, {}, {}, {})

\* The caller's arguments, before the call.
GeoInputs == \E b \in SizeCases, h \in PageCases : geo = Geo(FALSE, b, h, {})

DataSegmentSize ==
    /\ ~geo.called
    /\ geo' = Geo(TRUE, geo.buffer_size, geo.hugepage_size,
                  data_segment_size(geo.buffer_size, geo.hugepage_size))

\* The caller drops the result.
DataSegmentSizeUsed ==
    /\ geo.called
    /\ geo' = Geo(FALSE, geo.buffer_size, geo.hugepage_size, {})

-----------------------------------------------------------------------------
(* Specifications.  Each one runs one part of the program and leaves the    *)
(* variables of the other parts at rest.                                    *)

vars == <<nameObj, nextObj, objSize, objData, pc, req, calls, fd, ptr, last,
          lastDone, failed, mem, phase, args, call, stores, ppc, cpc, cseen,
          geo>>

ShmQuiet == ShmInit /\ nameObj = NoObj
CodecQuiet == CodecInit /\ mem = ZeroRecord
RaceQuiet == stores = <<>> /\ ppc = 0 /\ cpc = "idle" /\ cseen = NoneSeen

\* The platform policy: processes creating, opening, mapping, unlinking,
\* unmapping and closing one name.
Init == ShmInit /\ CodecQuiet /\ RaceQuiet /\ GeoInit

ShmOnly == UNCHANGED <<codecVars, raceVars, geoVars>>

CreateNext ==
    \E p \in Procs :
        \/ CreateBegin(p) /\ ShmOnly
        \/ OpenExcl(p) /\ ShmOnly
        \/ OpenExisting(p) /\ ShmOnly
        \/ TruncExisting(p) /\ ShmOnly
        \/ CloseExisting(p) /\ ShmOnly
        \/ TruncNew(p) /\ ShmOnly
        \/ CloseNew(p) /\ ShmOnly
        \/ UnlinkNew(p) /\ ShmOnly

PublicNext ==
    \E p \in Procs :
        \/ Open(p) /\ ShmOnly
        \/ Map(p) /\ ShmOnly
        \/ Store(p) /\ ShmOnly
        \/ GetSize(p) /\ ShmOnly
        \/ Unlink(p) /\ ShmOnly
        \/ Unmap(p) /\ ShmOnly
        \/ CloseFd(p) /\ ShmOnly

Next == CreateNext \/ PublicNext

Spec == Init /\ [][Next]_vars

\* Concurrent create calls alone: nothing but create touches the name.
SpecCreate == Init /\ [][CreateNext]_vars

\* The metadata codec.
CodecSpecInit == ShmQuiet /\ CodecInit /\ RaceQuiet /\ GeoInit

CodecOnly == UNCHANGED <<shmVars, raceVars, geoVars>>

CodecNext ==
    \/ MetadataInit /\ CodecOnly
    \/ MetadataValidate /\ CodecOnly
    \/ ValidateSizes /\ CodecOnly
    \/ EventOffset /\ CodecOnly
    \/ BufferIndex /\ CodecOnly
    \/ ProducerSectionSize /\ CodecOnly
    \/ ConsumerSectionSize /\ CodecOnly
    \/ ConsumerOffset /\ CodecOnly

SpecCodec == CodecSpecInit /\ [][CodecNext]_vars

\* metadata_init racing with a consumer.
RaceSpecInit == ShmQuiet /\ RaceInit /\ GeoInit

RaceOnly == UNCHANGED <<shmVars, geoVars>>

RaceNext ==
    \/ ProducerStore /\ RaceOnly
    \/ ConsumerReadMagic /\ RaceOnly
    \/ ConsumerReadVersion /\ RaceOnly
    \/ ConsumerReadField /\ RaceOnly
    \/ ConsumerAgain /\ RaceOnly

SpecRace == RaceSpecInit /\ [][RaceNext]_vars

\* The geometry library.
GeoSpecInit == ShmQuiet /\ CodecQuiet /\ RaceQuiet /\ GeoInputs

GeoOnly == UNCHANGED <<shmVars, codecVars, raceVars>>

GeoNext ==
    \/ DataSegmentSize /\ GeoOnly
    \/ DataSegmentSizeUsed /\ GeoOnly

SpecGeometry == GeoSpecInit /\ [][GeoNext]_vars

-----------------------------------------------------------------------------
(* Properties of concurrent create calls.                                   *)

\* No create call has failed: none returned -1 and none is on its way to.
NoCreateFailed ==
    /\ failed = {}
    /\ \A p \in Procs : pc[p] \notin {"close_old", "close_new", "unlink_new"}

\* C1: when processes call create concurrently on one name, each once, and
\* every call returns a valid descriptor, the named object has the size
\* asked for by the call that completed last: one of the requested sizes,
\* never 0 and never any other value.
C1_LastCreateWins ==
    (NoCreateFailed /\ lastDone # NoProc /\ \A p \in Procs : calls[p] <= 1)
    => /\ nameObj # NoObj
       /\ objSize[nameObj] = req[lastDone]
       /\ objSize[nameObj] \in RequestSizes

\* Two calls with different sizes have both returned a valid descriptor.
C1_Witness ==
    /\ NoCreateFailed
    /\ \E p, q \in Procs :
        /\ p # q /\ req[p] # req[q] /\ lastDone = q
        /\ calls[p] = 1 /\ calls[q] = 1
        /\ pc[p] = "idle" /\ pc[q] = "idle"
        /\ fd[p] # NoFd /\ fd[q] = fd[p] /\ nameObj = fd[q]

-----------------------------------------------------------------------------
(* Properties of unlink, unmap and close_fd.                                *)

\* What process q holds is untouched by the step: its descriptor, its
\* mapping, and the size and contents of the object behind them.
HandleKept(q) ==
    /\ fd'[q] = fd[q]
    /\ ptr'[q] = ptr[q]
    /\ \A o \in {fd[q], ptr[q]} \ {NoFd} :
        objSize'[o] = objSize[o] /\ objData'[o] = objData[o]

\* C3: unlink of a present name succeeds and removes the name while every
\* other process keeps its descriptor and mapping, with the object's size
\* and contents unchanged; an open of an absent name fails; unmap and
\* close_fd in one process leave every other process's handle alone.
C3_UnlinkKeepsHandles ==
    [][\A p \in Procs :
        /\ (Unlink(p) /\ nameObj # NoObj)
            => /\ last'.ret = TRUE
               /\ nameObj' = NoObj
               /\ \A q \in Procs \ {p} : HandleKept(q)
        /\ (Open(p) /\ nameObj = NoObj)
            => (last'.ret = NoFd /\ fd'[p] = NoFd)
        /\ (Unmap(p) \/ CloseFd(p))
            => \A q \in Procs \ {p} : HandleKept(q)]_vars

\* A process has unlinked the name while another holds the object open and
\* mapped, with contents stored in it.
C3_Witness ==
    /\ last.op = "unlink" /\ last.ret = TRUE
    /\ nameObj = NoObj
    /\ \E q \in Procs \ {last.proc} :
        /\ fd[q] # NoFd /\ ptr[q] = fd[q]
        /\ objData[fd[q]] = 1
        /\ objSize[fd[q]] \in RequestSizes

-----------------------------------------------------------------------------
(* Properties of the metadata codec.                                        *)

\* The arguments meet metadata_init's precondition: buffer_size is a power
\* of two, and event_size is 0 or a power of two.
ValidArgs(a) ==
    /\ Cardinality(a.buffer_size) = 1
    /\ Cardinality(a.event_size) <= 1

DefaultSections(a) ==
    /\ a.producer_section = DEFAULT_PRODUCER_SECTION_SIZE
    /\ a.consumer_section = DEFAULT_CONSUMER_SECTION_SIZE

\* C2: whenever the consumer's metadata_validate has returned true, the
\* geometry field it reads next already holds the value metadata_init
\* leaves in it.
C2_ValidatedFieldsFinal ==
    cpc = "read" => cseen.value = FinalValue(cseen.field)

\* C4: metadata_init with a buffer_size or event_size that breaks the
\* precondition leaves the memory as it was, and the memory does not become
\* a record metadata_validate accepts.
C4_BadSizeRejected ==
    (call.op = "metadata_init" /\ ~ValidArgs(args))
    => /\ mem = call.before
       /\ metadata_validate(mem) => metadata_validate(call.before)

\* C5: after metadata_init with valid arguments, whatever the memory held
\* before, metadata_validate is true, the arguments are stored, index_mask
\* is buffer_size - 1, each log2 field is the base-2 logarithm of its size
\* (0 for event_size 0), producer_pid is 0 and the padding is zero;
\* (4, 64, 1024) gives 1023, 10, 6 and a header of 4096 bytes; and a
\* zero-filled record that was never initialised does not validate.
C5_RoundTrip ==
    /\ (phase = "inited" /\ ValidArgs(args))
        => /\ metadata_validate(mem)
           /\ mem.max_consumers = args.max_consumers
           /\ mem.event_size = args.event_size
           /\ mem.buffer_size = args.buffer_size
           /\ mem.index_mask = Minus(args.buffer_size, {0}, W32)
           /\ mem.buffer_size_log2 = Bits(size_to_log2(args.buffer_size))
           /\ log2_to_size(Val(mem.buffer_size_log2)) = args.buffer_size
           /\ args.event_size # {}
                => /\ mem.event_size_log2 = Bits(size_to_log2(args.event_size))
                   /\ log2_to_size(Val(mem.event_size_log2)) = args.event_size
           /\ args.event_size = {} => mem.event_size_log2 = {}
           /\ mem.producer_pid = {}
           /\ \A i \in 1..PaddingLen : mem.padding[i] = {}
    /\ (phase = "inited"
        /\ args = Args(Bits(4), Bits(64), Bits(1024),
                       DEFAULT_PRODUCER_SECTION_SIZE,
                       DEFAULT_CONSUMER_SECTION_SIZE))
        => /\ mem.index_mask = Bits(1023)
           /\ mem.buffer_size_log2 = Bits(10)
           /\ mem.event_size_log2 = Bits(6)
           /\ mem.header_size = Bits(4096)
    /\ (phase = "fresh" /\ mem = ZeroRecord) => ~metadata_validate(mem)
    /\ (call.op = "metadata_validate" /\ phase = "inited" /\ ValidArgs(args))
        => call.out = TRUE

\* metadata_init(4, 64, 1024) has overwritten a record of an earlier run
\* that had a producer attached.
C5_Witness ==
    /\ call.op = "metadata_init"
    /\ call.before = AttachedRecord
    /\ args.event_size = Bits(64) /\ args.buffer_size = Bits(1024)
    /\ mem.index_mask = Bits(1023)
    /\ mem.producer_pid = {}
    /\ metadata_validate(mem)

\* C6: in a record the provisioning protocol wrote (default section sizes),
\* 1 << header_size_log2 is header_size.
C6_HeaderLog2Exact ==
    (phase = "inited" /\ DefaultSections(args))
    => log2_to_size(Val(mem.header_size_log2)) = mem.header_size

\* C7: for a record written with valid arguments and an index below
\* buffer_size, event_offset is index * event_size in 32-bit arithmetic.
C7_EventOffsetIsProduct ==
    (call.op = "event_offset" /\ ValidArgs(args))
    => call.out = Times(call.in, args.event_size, W32)

\* C8: for a record written with a power-of-two buffer_size and any 64-bit
\* sequence number, buffer_index is below buffer_size, is the sequence
\* number modulo buffer_size, and is the same for sequence + buffer_size
\* (taken modulo 2^64).
C8_BufferIndex ==
    (call.op = "buffer_index" /\ ValidArgs(args))
    => /\ Less(call.out, args.buffer_size)
       /\ call.out = Rem(call.in, args.buffer_size)
       /\ call.out = buffer_index(mem, Plus(call.in, args.buffer_size, W64))

\* buffer_index of 2^64 - 1, where sequence + buffer_size wraps, for the
\* largest buffer.
C8_Witness ==
    /\ call.op = "buffer_index"
    /\ call.in = 0..(W64 - 1)
    /\ args.buffer_size = {W32 - 1}
    /\ call.out = 0..(W32 - 2)

\* C9: data_segment_size(B, 0) is B, and data_segment_size(B, H) for H > 0
\* is a multiple of H and at least B.
C9_DataSegmentSize ==
    geo.called
    => IF geo.hugepage_size = {} THEN geo.out = geo.buffer_size
       ELSE /\ Rem(geo.out, geo.hugepage_size) = {}
            /\ LessEq(geo.buffer_size, geo.out)

\* C10: the section accessors give back the section sizes the record was
\* laid out with: producer_section_size is P, consumer_section_size is S,
\* and consumer_offset(n) is consumer_0_offset + n * S with the section
\* ending inside the header; all are defined for max_consumers = 0 too.
C10_SectionAccessors ==
    /\ call.op = "producer_section_size" => call.out = args.producer_section
    /\ call.op = "consumer_section_size"
        => (call.out # Undef /\ (args.max_consumers # {}
                                   => call.out = args.consumer_section))
    /\ call.op = "consumer_offset"
        => /\ call.out = Plus(mem.consumer_0_offset,
                              Times(call.in, args.consumer_section, W32), W32)
           /\ LessEq(Plus(call.out, args.consumer_section, W32),
                     mem.header_size)


\* Every process whose create call has returned a valid descriptor finds the
\* name present and bound to the object behind that descriptor.
ObtainedObjectStaysNamed ==
    \A p \in Procs :
        (pc[p] = "idle" /\ fd[p] # NoFd) => nameObj = fd[p]

\* The create call that returned last, if it returned -1, left its caller
\* (who has not called again yet) without an open descriptor.
FailedCreateHoldsNothing ==
    (last.op = "create" /\ last.ret = NoFd /\ pc[last.proc] = "idle")
    => fd[last.proc] = NoFd

\* C11: with concurrent create calls on one name, any of whose ftruncate
\* may fail, and no public unlink: (a) once a call has returned a valid
\* descriptor the name stays present and bound to that descriptor's object,
\* so a failing call never removes an object another caller obtained; and
\* (b) a call that returns -1 leaves no descriptor it opened still open.
C11_FailingCreateKeepsObject ==
    ObtainedObjectStaysNamed /\ FailedCreateHoldsNothing
=============================================================================
